---- MODULE Spec2Model ----
(***************************************************************************)
(* boltseq: a bucket that keeps two bolt sub-buckets in step,              *)
(*   "data":  key -> 8-byte big-endian sequence number ++ payload          *)
(*   "seq":   8-byte big-endian sequence number -> key                     *)
(* and a cursor that walks the "seq" sub-bucket.                           *)
(*                                                                         *)
(* Byte strings are sequences of 0..255.  Go's nil slice is the value nil. *)
(* The bolt store is modelled by its contract: an ordered byte-key         *)
(* collection with Get/Put/Delete, a per-bucket counter and a cursor.      *)
(***************************************************************************)
EXTENDS Integers, Sequences, FiniteSets, TLC

\* ------------------------------------------------------------------ bounds

\* Puts made in one behaviour (the counter is a uint64; 2^64 is out of reach).
MaxPuts == 3

\* Puts made in one behaviour in which the caller also moves a cursor.
MaxCursorPuts == 2

\* Puts made in one behaviour that starts from a store with malformed entries.
MaxCorruptPuts == 1

\* The counter of an aged bucket: one that was written StartSeq times and
\* emptied again, so that the next sequence numbers cross a byte boundary.
StartSeq == 254

\* ------------------------------------------------------------------ bytes

nil == <<-1>>

Keys == {<<97>>, <<97, 0>>, <<98>>}

\* The keys written while the caller also moves a cursor.
CursorKeys == {<<97>>, <<97, 0>>}

Payloads == {<<>>, <<0>>}

\* len(b) of a Go slice: 0 for nil.
GoLen(b) == IF b = nil THEN 0 ELSE Len(b)

\* bytes.Equal: nil and the empty slice are equal.
BytesEqual(a, b) ==
    (IF a = nil THEN <<>> ELSE a) = (IF b = nil THEN <<>> ELSE b)

\* bytes.Compare(a, b) < 0, the order of a bolt bucket's keys.
RECURSIVE BytesLess(_, _)
BytesLess(a, b) ==
    IF Len(b) = 0 THEN FALSE
    ELSE IF Len(a) = 0 THEN TRUE
    ELSE IF a[1] # b[1] THEN a[1] < b[1]
    ELSE BytesLess(Tail(a), Tail(b))

RECURSIVE ShiftRight8(_, _)
ShiftRight8(v, n) == IF n = 0 THEN v ELSE ShiftRight8(v \div 256, n - 1)

\* A byte order with the least significant byte first.
LittleEndian(i) == 9 - i

\* binary.BigEndian: of the 8 bytes, the i-th holds the i-th most significant.
BigEndian(i) == i

\* binary.BigEndian.PutUint64: b[0] = byte(v >> 56), ..., b[7] = byte(v).
PutUint64(v) == [j \in 1..8 |-> ShiftRight8(v, 8 - BigEndian(j)) % 256]

\* binary.BigEndian.Uint64: b[7] | b[6]<<8 | ... | b[0]<<56, the first n
\* most significant bytes taken.
RECURSIVE Uint64Upto(_, _)
Uint64Upto(b, n) ==
    IF n = 0 THEN 0 ELSE Uint64Upto(b, n - 1) * 256 + b[BigEndian(n)]

Uint64(b) == Uint64Upto(b, 8)

\* ------------------------------------------------------------------ Value

\* newValue that leaves the 8-byte header zero.
newValueNoSeq(seq, val) == PutUint64(0) \o (IF val = nil THEN <<>> ELSE val)

\* newValue: the sequence number in 8 bytes, then the data.
newValue(seq, val) == PutUint64(seq) \o (IF val = nil THEN <<>> ELSE val)

\* Value.IsValid
ValueIsValid(v) == GoLen(v) >= 8

\* Value.Data
ValueData(v) == SubSeq(v, 9, Len(v))

\* Value.Seq
ValueSeq(v) == Uint64(SubSeq(v, 1, 8))

\* Value.seqBytes
ValueSeqBytes(v) == SubSeq(v, 1, 8)

\* ------------------------------------------------------------------ store

bucketNameData == "data"

bucketNameSeq == "seq"

NoEntries == [k \in {} |-> <<>>]

\* A sub-bucket that was never created.
NoBucket == [exists |-> FALSE, kv |-> NoEntries, sequence |-> 0]

\* Location.CreateBucketIfNotExists
CreateBucketIfNotExists(l, name) ==
    IF l[name].exists THEN l ELSE [l EXCEPT ![name].exists = TRUE]

\* bolt.Bucket.Get: nil when the key is not there.
BoltGet(b, key) == IF key \in DOMAIN b.kv THEN b.kv[key] ELSE nil

\* bolt.Bucket.Put
BoltPut(b, key, val) ==
    [b EXCEPT !.kv = [k \in DOMAIN b.kv \cup {key} |->
                          IF k = key THEN val ELSE b.kv[k]]]

\* bolt.Bucket.Delete: no error when the key is not there.
BoltDelete(b, key) ==
    [b EXCEPT !.kv = [k \in DOMAIN b.kv \ {key} |-> b.kv[k]]]

\* A counter that is not kept but read off the greatest key of the bucket.
NextSequenceFromLast(b) ==
    [b EXCEPT !.sequence = IF DOMAIN b.kv = {} THEN 1
                           ELSE Uint64(CHOOSE x \in DOMAIN b.kv :
                                          \A y \in DOMAIN b.kv :
                                             y = x \/ BytesLess(y, x)) + 1]

\* bolt.Bucket.NextSequence
NextSequence(b) == [b EXCEPT !.sequence = b.sequence + 1]

\* The least and the greatest key of a set of keys, in byte order.
MinKey(S) == CHOOSE x \in S : \A y \in S : y = x \/ BytesLess(x, y)

MaxKey(S) == CHOOSE x \in S : \A y \in S : y = x \/ BytesLess(y, x)

\* What a bolt cursor call returns: the pair it lands on (k = nil: none).
Pair(kv, S) == IF S = {} THEN [k |-> nil, v |-> nil]
               ELSE [k |-> MinKey(S), v |-> kv[MinKey(S)]]

PairMax(kv, S) == IF S = {} THEN [k |-> nil, v |-> nil]
                  ELSE [k |-> MaxKey(S), v |-> kv[MaxKey(S)]]

\* bolt.Cursor.First / Last: a descent from the root.
BoltFirst(kv) == Pair(kv, DOMAIN kv)

BoltLast(kv) == PairMax(kv, DOMAIN kv)

\* bolt.Cursor.Seek: the first entry whose key is >= seek.
BoltSeek(kv, seek) == Pair(kv, {x \in DOMAIN kv : ~BytesLess(x, seek)})

\* bolt.Cursor.Next / Prev from the place `at` (nil: never positioned).  A
\* cursor whose bucket was changed since it was positioned is stale, and what
\* it returns is not defined: `pick` stands for the pair it happens to find.
BoltNext(kv, at, stale, pick) ==
    IF stale THEN pick
    ELSE IF at = nil THEN [k |-> nil, v |-> nil]
    ELSE Pair(kv, {x \in DOMAIN kv : BytesLess(at, x)})

BoltPrev(kv, at, stale, pick) ==
    IF stale THEN pick
    ELSE IF at = nil THEN [k |-> nil, v |-> nil]
    ELSE PairMax(kv, {x \in DOMAIN kv : BytesLess(x, at)})

\* The pairs a stale cursor may find: any entry of the bucket, or none.
Picks(kv) == {[k |-> nil, v |-> nil]} \cup {[k |-> x, v |-> kv[x]] : x \in DOMAIN kv}

\* bolt.Cursor.Delete: removes the entry the cursor is on; a stale cursor
\* removes the entry it happens to refer to (pick), or nothing.
BoltCursorDelete(b, at, stale, pick) ==
    IF stale THEN (IF pick.k = nil THEN b ELSE BoltDelete(b, pick.k))
    ELSE BoltDelete(b, at)

\* ------------------------------------------------------------------ Bucket

ErrNone == "nil"

ErrInvalidValue == "invalid value"

ErrInvalidBucket == "invalid bucket"

ErrInvalidKey == "invalid key"

\* Bucket.Put without the retirement of the key's current pair.
BucketPutNoRetire(l, key, value) ==
    LET l1  == CreateBucketIfNotExists(l, bucketNameData)
        l2  == CreateBucketIfNotExists(l1, bucketNameSeq)
        v   == BoltGet(l2[bucketNameData], key)
        l4  == [l2 EXCEPT ![bucketNameSeq] = NextSequence(@)]
        seq == l4[bucketNameSeq].sequence
        val == newValue(seq, value)
        l5  == [l4 EXCEPT ![bucketNameSeq] = BoltPut(@, ValueSeqBytes(val), key)]
        l6  == [l5 EXCEPT ![bucketNameData] = BoltPut(@, key, val)]
    IN  [loc |-> l6, seq |-> seq, err |-> ErrNone, v |-> v]

\* Bucket.Put with the sequence number taken before the counter moves.
BucketPutStaleSeq(l, key, value) ==
    LET l1  == CreateBucketIfNotExists(l, bucketNameData)
        l2  == CreateBucketIfNotExists(l1, bucketNameSeq)
        v   == BoltGet(l2[bucketNameData], key)
        l3  == IF v # nil
               THEN [l2 EXCEPT ![bucketNameSeq] = BoltDelete(@, ValueSeqBytes(v)),
                               ![bucketNameData] = BoltDelete(@, key)]
               ELSE l2
        seq == IF v # nil THEN ValueSeq(v) ELSE l3[bucketNameSeq].sequence + 1
        l4  == IF v # nil THEN l3
               ELSE [l3 EXCEPT ![bucketNameSeq] = NextSequence(@)]
        val == newValue(seq, value)
        l5  == [l4 EXCEPT ![bucketNameSeq] = BoltPut(@, ValueSeqBytes(val), key)]
        l6  == [l5 EXCEPT ![bucketNameData] = BoltPut(@, key, val)]
    IN  IF v # nil /\ ~ValueIsValid(v)
        THEN [loc |-> l2, seq |-> 0, err |-> ErrInvalidValue, v |-> v]
        ELSE [loc |-> l6, seq |-> seq, err |-> ErrNone, v |-> v]

\* Bucket.Put that numbers the pair without moving the counter.
BucketPutNoCount(l, key, value) ==
    LET l1  == CreateBucketIfNotExists(l, bucketNameData)
        l2  == CreateBucketIfNotExists(l1, bucketNameSeq)
        v   == BoltGet(l2[bucketNameData], key)
        l3  == IF v # nil
               THEN [l2 EXCEPT ![bucketNameSeq] = BoltDelete(@, ValueSeqBytes(v)),
                               ![bucketNameData] = BoltDelete(@, key)]
               ELSE l2
        seq == l3[bucketNameSeq].sequence + 1
        val == newValue(seq, value)
        l5  == [l3 EXCEPT ![bucketNameSeq] = BoltPut(@, ValueSeqBytes(val), key)]
        l6  == [l5 EXCEPT ![bucketNameData] = BoltPut(@, key, val)]
    IN  IF v # nil /\ ~ValueIsValid(v)
        THEN [loc |-> l2, seq |-> 0, err |-> ErrInvalidValue, v |-> v]
        ELSE [loc |-> l6, seq |-> seq, err |-> ErrNone, v |-> v]

\* Bucket.Put that takes the next sequence number before it looks at the
\* key's current value.
BucketPutIssueFirst(l, key, value) ==
    LET l1  == CreateBucketIfNotExists(l, bucketNameData)
        l2  == CreateBucketIfNotExists(l1, bucketNameSeq)
        l3  == [l2 EXCEPT ![bucketNameSeq] = NextSequence(@)]
        seq == l3[bucketNameSeq].sequence
        v   == BoltGet(l3[bucketNameData], key)
        l4  == IF v # nil
               THEN [l3 EXCEPT ![bucketNameSeq] = BoltDelete(@, ValueSeqBytes(v)),
                               ![bucketNameData] = BoltDelete(@, key)]
               ELSE l3
        val == newValue(seq, value)
        l5  == [l4 EXCEPT ![bucketNameSeq] = BoltPut(@, ValueSeqBytes(val), key)]
        l6  == [l5 EXCEPT ![bucketNameData] = BoltPut(@, key, val)]
    IN  IF v # nil /\ ~ValueIsValid(v)
        THEN [loc |-> l3, seq |-> 0, err |-> ErrInvalidValue, v |-> v]
        ELSE [loc |-> l6, seq |-> seq, err |-> ErrNone, v |-> v]

\* Bucket.Put: the state it leaves, the sequence number and the error it
\* returns, and v, the value it found under the key (nil: none).
BucketPut(l, key, value) ==
    LET l1  == CreateBucketIfNotExists(l, bucketNameData)
        l2  == CreateBucketIfNotExists(l1, bucketNameSeq)
        v   == BoltGet(l2[bucketNameData], key)
        l3  == IF v # nil
               THEN [l2 EXCEPT ![bucketNameSeq] = BoltDelete(@, ValueSeqBytes(v)),
                               ![bucketNameData] = BoltDelete(@, key)]
               ELSE l2
        l4  == [l3 EXCEPT ![bucketNameSeq] = NextSequence(@)]
        seq == l4[bucketNameSeq].sequence
        val == newValue(seq, value)
        l5  == [l4 EXCEPT ![bucketNameSeq] = BoltPut(@, ValueSeqBytes(val), key)]
        l6  == [l5 EXCEPT ![bucketNameData] = BoltPut(@, key, val)]
    IN  IF v # nil /\ ~ValueIsValid(v)
        THEN [loc |-> l2, seq |-> 0, err |-> ErrInvalidValue, v |-> v]
        ELSE [loc |-> l6, seq |-> seq, err |-> ErrNone, v |-> v]

\* Bucket.Get
BucketGet(l, key) ==
    IF ~l[bucketNameData].exists THEN nil
    ELSE BoltGet(l[bucketNameData], key)

\* Bucket.GetSeq
BucketGetSeq(l, seq) ==
    IF ~l[bucketNameSeq].exists THEN nil
    ELSE BoltGet(l[bucketNameSeq], ValueSeqBytes(newValue(seq, nil)))

\* Bucket.Delete that removes the data entry only.
BucketDeleteDataOnly(l, key) ==
    LET v == BoltGet(l[bucketNameData], key)
    IN  IF ~l[bucketNameData].exists
        THEN [loc |-> l, err |-> ErrInvalidBucket, v |-> nil]
        ELSE IF v = nil THEN [loc |-> l, err |-> ErrNone, v |-> v]
        ELSE [loc |-> [l EXCEPT ![bucketNameData] = BoltDelete(@, key)],
              err |-> ErrNone, v |-> v]

\* Bucket.Delete that removes the seq entry only.
BucketDeleteSeqOnly(l, key) ==
    LET v == BoltGet(l[bucketNameData], key)
    IN  IF ~l[bucketNameData].exists
        THEN [loc |-> l, err |-> ErrInvalidBucket, v |-> nil]
        ELSE IF v = nil THEN [loc |-> l, err |-> ErrNone, v |-> v]
        ELSE [loc |-> [l EXCEPT ![bucketNameSeq] = BoltDelete(@, ValueSeqBytes(v))],
              err |-> ErrNone, v |-> v]

\* Bucket.Delete that reports an absent key as an error.
BucketDeleteStrict(l, key) ==
    LET v == BoltGet(l[bucketNameData], key)
    IN  IF ~l[bucketNameData].exists
        THEN [loc |-> l, err |-> ErrInvalidBucket, v |-> nil]
        ELSE IF v = nil THEN [loc |-> l, err |-> ErrInvalidKey, v |-> v]
        ELSE [loc |-> [l EXCEPT ![bucketNameSeq] = BoltDelete(@, ValueSeqBytes(v)),
                                ![bucketNameData] = BoltDelete(@, key)],
              err |-> ErrNone, v |-> v]

\* Bucket.Delete that looks for both sub-buckets before it looks for the key.
BucketDeleteSeqFirst(l, key) ==
    LET v == BoltGet(l[bucketNameData], key)
    IN  IF ~l[bucketNameData].exists \/ ~l[bucketNameSeq].exists
        THEN [loc |-> l, err |-> ErrInvalidBucket, v |-> nil]
        ELSE IF v = nil THEN [loc |-> l, err |-> ErrNone, v |-> v]
        ELSE IF ~ValueIsValid(v) THEN [loc |-> l, err |-> ErrInvalidValue, v |-> v]
        ELSE [loc |-> [l EXCEPT ![bucketNameSeq] = BoltDelete(@, ValueSeqBytes(v)),
                                ![bucketNameData] = BoltDelete(@, key)],
              err |-> ErrNone, v |-> v]

\* Bucket.Delete that makes the sub-buckets when they are not there.
BucketDeleteCreates(l, key) ==
    LET l2 == CreateBucketIfNotExists(
                  CreateBucketIfNotExists(l, bucketNameData), bucketNameSeq)
        v  == BoltGet(l2[bucketNameData], key)
    IN  IF v = nil THEN [loc |-> l2, err |-> ErrNone, v |-> v]
        ELSE IF ~ValueIsValid(v) THEN [loc |-> l2, err |-> ErrInvalidValue, v |-> v]
        ELSE [loc |-> [l2 EXCEPT ![bucketNameSeq] = BoltDelete(@, ValueSeqBytes(v)),
                                 ![bucketNameData] = BoltDelete(@, key)],
              err |-> ErrNone, v |-> v]

\* Bucket.Delete: the state it leaves, the error it returns, and v, the value
\* it found under the key.
BucketDelete(l, key) ==
    LET v == BoltGet(l[bucketNameData], key)
    IN  IF ~l[bucketNameData].exists
        THEN [loc |-> l, err |-> ErrInvalidBucket, v |-> nil]
        ELSE IF v = nil THEN [loc |-> l, err |-> ErrNone, v |-> v]
        ELSE IF ~ValueIsValid(v) THEN [loc |-> l, err |-> ErrInvalidValue, v |-> v]
        ELSE IF ~l[bucketNameSeq].exists
        THEN [loc |-> l, err |-> ErrInvalidBucket, v |-> v]
        ELSE [loc |-> [l EXCEPT ![bucketNameSeq] = BoltDelete(@, ValueSeqBytes(v)),
                                ![bucketNameData] = BoltDelete(@, key)],
              err |-> ErrNone, v |-> v]

\* ------------------------------------------------------------------ Cursor

\* Bucket.Cursor: cs and dp.c are nil when the sub-bucket does not exist.
BucketCursor(l) ==
    [cs  |-> [isnil |-> ~l[bucketNameSeq].exists, at |-> nil, stale |-> FALSE],
     dp  |-> [isnil |-> ~l[bucketNameData].exists, stale |-> FALSE,
              key |-> nil, val |-> nil],
     seq |-> 0,
     key |-> nil,
     err |-> ErrNone]

\* pointer.move: the pointer it leaves and whether it is on k.
pointerMove(l, p, k) ==
    IF p.isnil THEN [p |-> p, ok |-> FALSE]
    ELSE IF BytesEqual(p.key, k) THEN [p |-> p, ok |-> TRUE]
    ELSE LET r == BoltSeek(l[bucketNameData].kv, IF k = nil THEN <<>> ELSE k)
         IN  [p  |-> [p EXCEPT !.key = r.k, !.val = r.v, !.stale = FALSE],
              ok |-> BytesEqual(r.k, k)]

\* pointer.Get
pointerGet(l, p, k) ==
    LET m == pointerMove(l, p, k)
    IN  [p |-> m.p, val |-> IF m.ok THEN m.p.val ELSE nil, ok |-> m.ok]

\* pointer.Delete
pointerDelete(l, p, k, pick) ==
    LET m == pointerMove(l, p, k)
    IN  IF ~m.ok THEN [loc |-> l, p |-> m.p, err |-> ErrNone]
        ELSE [loc |-> [l EXCEPT ![bucketNameData] =
                         BoltCursorDelete(@, m.p.key, m.p.stale, pick)],
              p   |-> [m.p EXCEPT !.stale = TRUE],
              err |-> ErrNone]

\* Cursor.sync: the cursor it leaves, what it returns, and k, the "seq" key
\* it was handed (nil: none).
sync(c, pair) ==
    IF pair.k = nil THEN [c |-> c, ok |-> FALSE, k |-> nil]
    ELSE IF ~ValueIsValid(pair.k)
    THEN [c |-> [c EXCEPT !.err = ErrInvalidKey], ok |-> FALSE, k |-> pair.k]
    ELSE [c |-> [c EXCEPT !.seq = ValueSeq(pair.k), !.key = pair.v], ok |-> TRUE,
          k |-> pair.k]

\* Cursor.First
CursorFirst(l, c) ==
    IF c.cs.isnil THEN [c |-> c, ok |-> FALSE, k |-> nil]
    ELSE LET pair == BoltFirst(l[bucketNameSeq].kv)
         IN  sync([c EXCEPT !.cs.at = pair.k, !.cs.stale = FALSE], pair)

\* Cursor.Last
CursorLast(l, c) ==
    IF c.cs.isnil THEN [c |-> c, ok |-> FALSE, k |-> nil]
    ELSE LET pair == BoltLast(l[bucketNameSeq].kv)
         IN  sync([c EXCEPT !.cs.at = pair.k, !.cs.stale = FALSE], pair)

\* Cursor.Next.  A bolt cursor that runs off the end stays on the last entry.
CursorNext(l, c, pick) ==
    IF c.cs.isnil THEN [c |-> c, ok |-> FALSE, k |-> nil]
    ELSE LET pair == BoltNext(l[bucketNameSeq].kv, c.cs.at, c.cs.stale, pick)
         IN  sync([c EXCEPT !.cs.at = IF pair.k = nil THEN @ ELSE pair.k], pair)

\* Cursor.Prev.  A bolt cursor that runs off the start stays on the first
\* entry or forgets its place, depending on the bolt version (keep).
CursorPrev(l, c, pick, keep) ==
    IF c.cs.isnil THEN [c |-> c, ok |-> FALSE, k |-> nil]
    ELSE LET pair == BoltPrev(l[bucketNameSeq].kv, c.cs.at, c.cs.stale, pick)
         IN  sync([c EXCEPT !.cs.at = IF pair.k # nil THEN pair.k
                                      ELSE IF keep THEN @ ELSE nil], pair)

\* Cursor.Seek.  A bolt cursor that finds nothing stays past the last entry.
CursorSeek(l, c, seq) ==
    IF c.cs.isnil THEN [c |-> c, ok |-> FALSE, k |-> nil]
    ELSE LET seek == ValueSeqBytes(newValue(seq, nil))
             pair == BoltSeek(l[bucketNameSeq].kv, seek)
         IN  sync([c EXCEPT !.cs.at = IF pair.k = nil THEN seek ELSE pair.k,
                            !.cs.stale = FALSE], pair)

\* Cursor.Data
CursorData(l, c) ==
    LET g == pointerGet(l, c.dp, c.key)
        c1 == [c EXCEPT !.dp = g.p]
    IN  IF ~g.ok THEN [c |-> c1, val |-> nil, err |-> ErrInvalidKey]
        ELSE IF ~ValueIsValid(g.val)
        THEN [c |-> c1, val |-> nil, err |-> ErrInvalidValue]
        ELSE [c |-> c1, val |-> ValueData(g.val), err |-> ErrNone]

\* Cursor.Delete dereferences a nil cs, or deletes through a data cursor
\* that was never positioned: the call panics.
CursorDeletePanics(c) ==
    c.cs.isnil \/ (~c.dp.isnil /\ c.key = nil /\ c.dp.key = nil)

\* Cursor.Delete that leaves the data entry in place.
CursorDeleteSeqOnly(l, c, pickD, pickS) ==
    [loc |-> [l EXCEPT ![bucketNameSeq] =
                BoltCursorDelete(@, c.cs.at, c.cs.stale, pickS)],
     c   |-> [c EXCEPT !.cs.stale = TRUE],
     err |-> ErrNone]

\* Cursor.Delete
CursorDelete(l, c, pickD, pickS) ==
    LET d == pointerDelete(l, c.dp, c.key, pickD)
    IN  [loc |-> [d.loc EXCEPT ![bucketNameSeq] =
                    BoltCursorDelete(@, c.cs.at, c.cs.stale, pickS)],
         c   |-> [c EXCEPT !.dp = d.p, !.cs.stale = TRUE],
         err |-> ErrNone]

NoPair == [k |-> nil, v |-> nil]

\* Bucket.DeleteSeq that deletes whatever entry the seek lands on.
BucketDeleteSeqAny(l, seq) ==
    LET s == CursorSeek(l, BucketCursor(l), seq)
    IN  IF ~s.ok THEN [loc |-> l, err |-> s.c.err, ok |-> s.ok, c |-> s.c]
        ELSE LET d == CursorDelete(l, s.c, NoPair, NoPair)
             IN  [loc |-> d.loc, err |-> d.err, ok |-> s.ok, c |-> s.c]

\* Bucket.DeleteSeq that takes every seek that failed for "nothing there".
BucketDeleteSeqSilent(l, seq) ==
    LET s == CursorSeek(l, BucketCursor(l), seq)
    IN  IF ~s.ok THEN [loc |-> l, err |-> ErrNone, ok |-> s.ok, c |-> s.c]
        ELSE IF s.c.seq # seq
        THEN [loc |-> l, err |-> ErrNone, ok |-> s.ok, c |-> s.c]
        ELSE LET d == CursorDelete(l, s.c, NoPair, NoPair)
             IN  [loc |-> d.loc, err |-> d.err, ok |-> s.ok, c |-> s.c]

\* Bucket.DeleteSeq: a cursor of its own, Seek, and Delete on an exact match.
\* ok and c are what its Seek returned and the cursor it left.
BucketDeleteSeq(l, seq) ==
    LET s == CursorSeek(l, BucketCursor(l), seq)
    IN  IF ~s.ok THEN [loc |-> l, err |-> s.c.err, ok |-> s.ok, c |-> s.c]
        ELSE IF s.c.seq # seq
        THEN [loc |-> l, err |-> ErrNone, ok |-> s.ok, c |-> s.c]
        ELSE LET d == CursorDelete(l, s.c, NoPair, NoPair)
             IN  [loc |-> d.loc, err |-> d.err, ok |-> s.ok, c |-> s.c]

\* The loop of TestBucket_putMany: First, then Data and Next until Next
\* returns false.  fuel cuts a walk that would not end.
RECURSIVE WalkForward(_, _, _, _)
WalkForward(l, c, ok, fuel) ==
    IF ~ok \/ fuel = 0 THEN [visits |-> <<>>, err |-> c.err]
    ELSE LET d    == CursorData(l, c)
             n    == CursorNext(l, d.c, NoPair)
             rest == WalkForward(l, n.c, n.ok, fuel - 1)
         IN  [visits |-> <<[seq |-> c.seq, key |-> c.key, data |-> d.val,
                            err |-> d.err]>> \o rest.visits,
              err    |-> rest.err]

\* The same loop backwards: Last, then Data and Prev until Prev returns false.
RECURSIVE WalkBackward(_, _, _, _)
WalkBackward(l, c, ok, fuel) ==
    IF ~ok \/ fuel = 0 THEN [visits |-> <<>>, err |-> c.err]
    ELSE LET d    == CursorData(l, c)
             n    == CursorPrev(l, d.c, NoPair, TRUE)
             rest == WalkBackward(l, n.c, n.ok, fuel - 1)
         IN  [visits |-> <<[seq |-> c.seq, key |-> c.key, data |-> d.val,
                            err |-> d.err]>> \o rest.visits,
              err    |-> rest.err]

Fuel(l) == Cardinality(DOMAIN l[bucketNameSeq].kv) + 2

\* ------------------------------------------------------------------ state

VARIABLES
    loc,    \* the Location: the "data" and "seq" sub-buckets
    cur,    \* the Cursor the caller holds: <<c>>, or <<>> before Bucket.Cursor
    last,   \* the latest call: its arguments and what it returned
    nput,   \* successful Puts so far
    putAt,  \* for each key, which Put (1st, 2nd, ...) wrote it last; 0: none
    seq0,   \* the counter of "seq" at the start
    cdel,   \* whether Cursor.Delete was called
    landed  \* the "seq" key the cursor's latest positioning call was handed

vars == <<loc, cur, last, nput, putAt, seq0, cdel, landed>>

Call(op, key, val, seq, ok, err, v, cseq) ==
    [op |-> op, key |-> key, val |-> val, seq |-> seq, ok |-> ok, err |-> err,
     v |-> v, cseq |-> cseq]

NeverWritten == [n \in {bucketNameData, bucketNameSeq} |-> NoBucket]

\* A bucket that was written StartSeq times and emptied again.
Aged ==
    [n \in {bucketNameData, bucketNameSeq} |->
        [exists |-> TRUE, kv |-> NoEntries,
         sequence |-> IF n = bucketNameSeq THEN StartSeq ELSE 0]]

\* The sequence numbers the calls are tried with: issued or not, live or not.
SeqArgs == seq0 .. (seq0 + nput + 1)

\* The entries <<key, value>> of a sub-bucket, as its key-value function.
KV(pairs) ==
    [k \in {p[1] : p \in pairs} |-> (CHOOSE p \in pairs : p[1] = k)[2]]

\* Stores with entries that Bucket.Put does not write (the Location is an
\* ordinary bolt bucket, open to any writer): a data value shorter than 8
\* bytes, beside a well-formed one, with no "seq" sub-bucket at all,
CorruptValueNoSeq ==
    [data |-> [exists |-> TRUE, sequence |-> 0,
               kv |-> KV({<<(<<97>>), (<<7>>)>>,
                          <<(<<97, 0>>), newValue(1, <<>>)>>})],
     seq  |-> NoBucket]

\* the same with a "seq" sub-bucket that has an entry for either key,
CorruptValue ==
    [data |-> [exists |-> TRUE, sequence |-> 0,
               kv |-> KV({<<(<<97>>), (<<7>>)>>,
                          <<(<<97, 0>>), newValue(1, <<>>)>>})],
     seq  |-> [exists |-> TRUE, sequence |-> 2,
               kv |-> KV({<<PutUint64(1), (<<97, 0>>)>>,
                          <<PutUint64(2), (<<97>>)>>})]]

\* and two well-formed pairs with a "seq" key shorter than 8 bytes before
\* them and another after them.
CorruptKeys ==
    [data |-> [exists |-> TRUE, sequence |-> 0,
               kv |-> KV({<<(<<97>>), newValue(1, <<0>>)>>,
                          <<(<<97, 0>>), newValue(2, <<>>)>>})],
     seq  |-> [exists |-> TRUE, sequence |-> 2,
               kv |-> KV({<<(<<0>>), (<<97>>)>>,
                          <<PutUint64(1), (<<97>>)>>,
                          <<PutUint64(2), (<<97, 0>>)>>,
                          <<(<<1>>), (<<97, 0>>)>>})]]

\* The sequence numbers the calls on such a store are tried with.
SeqArgsCorrupt == 0 .. (seq0 + nput + 1)

\* A bolt cursor is not to be relied on once its bucket was changed: the
\* caller's cursor goes stale with every change made through the bucket.
Touch(cs, l, l2) ==
    [i \in DOMAIN cs |->
       [cs[i] EXCEPT
          !.cs.stale = @ \/ (~cs[i].cs.isnil
                               /\ l2[bucketNameSeq].kv # l[bucketNameSeq].kv),
          !.dp.stale = @ \/ (~cs[i].dp.isnil
                               /\ l2[bucketNameData].kv # l[bucketNameData].kv)]]

Init ==
    /\ loc \in {NeverWritten, Aged}
    /\ cur = <<>>
    /\ last = Call("NewBucket", nil, nil, 0, TRUE, ErrNone, nil, 0)
    /\ nput = 0
    /\ putAt = [k \in Keys |-> 0]
    /\ seq0 = loc[bucketNameSeq].sequence
    /\ cdel = FALSE
    /\ landed = nil

InitCorrupt ==
    /\ loc \in {NeverWritten, CorruptValueNoSeq, CorruptValue, CorruptKeys}
    /\ cur = <<>>
    /\ last = Call("NewBucket", nil, nil, 0, TRUE, ErrNone, nil, 0)
    /\ nput = 0
    /\ putAt = [k \in Keys |-> 0]
    /\ seq0 = loc[bucketNameSeq].sequence
    /\ cdel = FALSE
    /\ landed = nil

Put(key, value) ==
    /\ nput < MaxPuts
    /\ \E r \in {BucketPut(loc, key, value)} :
           /\ loc' = r.loc
           /\ cur' = Touch(cur, loc, r.loc)
           /\ last' = Call("Put", key, value, r.seq, r.err = ErrNone, r.err, r.v, 0)
           /\ nput' = IF r.err = ErrNone THEN nput + 1 ELSE nput
           /\ putAt' = IF r.err = ErrNone THEN [putAt EXCEPT ![key] = nput + 1]
                       ELSE putAt
    /\ UNCHANGED <<seq0, cdel, landed>>

Get(key) ==
    /\ \E v \in {BucketGet(loc, key)} :
           last' = Call("Get", key, nil, 0, v # nil, ErrNone, v, 0)
    /\ UNCHANGED <<loc, cur, nput, putAt, seq0, cdel, landed>>

GetSeq(seq) ==
    /\ \E k \in {BucketGetSeq(loc, seq)} :
           last' = Call("GetSeq", k, nil, seq, k # nil, ErrNone, nil, 0)
    /\ UNCHANGED <<loc, cur, nput, putAt, seq0, cdel, landed>>

Delete(key) ==
    /\ \E r \in {BucketDelete(loc, key)} :
           /\ loc' = r.loc
           /\ cur' = Touch(cur, loc, r.loc)
           /\ last' = Call("Delete", key, nil, 0, r.err = ErrNone, r.err, r.v, 0)
    /\ UNCHANGED <<nput, putAt, seq0, cdel, landed>>

DeleteSeq(seq) ==
    /\ \E r \in {BucketDeleteSeq(loc, seq)} :
           /\ loc' = r.loc
           /\ cur' = Touch(cur, loc, r.loc)
           /\ last' = Call("DeleteSeq", IF r.ok THEN r.c.key ELSE nil, nil, seq,
                           r.ok, r.err, nil, IF r.ok THEN r.c.seq ELSE 0)
    /\ UNCHANGED <<nput, putAt, seq0, cdel, landed>>

\* c := b.Cursor(); for ok := c.First(); ok; ok = c.Next() { c.Data() }; c.Err()
Walk ==
    /\ \E f \in {CursorFirst(loc, BucketCursor(loc))} :
       \E w \in {WalkForward(loc, f.c, f.ok, Fuel(loc))} :
           last' = Call("Walk", nil, w.visits, 0, TRUE, w.err, nil, 0)
    /\ UNCHANGED <<loc, cur, nput, putAt, seq0, cdel, landed>>

\* c := b.Cursor(); for ok := c.Last(); ok; ok = c.Prev() { c.Data() }; c.Err()
WalkBack ==
    /\ \E f \in {CursorLast(loc, BucketCursor(loc))} :
       \E w \in {WalkBackward(loc, f.c, f.ok, Fuel(loc))} :
           last' = Call("WalkBack", nil, w.visits, 0, TRUE, w.err, nil, 0)
    /\ UNCHANGED <<loc, cur, nput, putAt, seq0, cdel, landed>>

NewCursor ==
    /\ cur' = <<BucketCursor(loc)>>
    /\ last' = Call("Cursor", nil, nil, 0, TRUE, ErrNone, nil, 0)
    /\ landed' = nil
    /\ UNCHANGED <<loc, nput, putAt, seq0, cdel>>

Moved(op, seq, moved) ==
    /\ \E r \in {moved} :
           /\ cur' = <<r.c>>
           /\ last' = Call(op, r.c.key, nil, seq, r.ok, r.c.err, nil, r.c.seq)
           /\ landed' = r.k
    /\ UNCHANGED <<loc, nput, putAt, seq0, cdel>>

First == cur # <<>> /\ Moved("First", 0, CursorFirst(loc, cur[1]))

Last == cur # <<>> /\ Moved("Last", 0, CursorLast(loc, cur[1]))

Next_ ==
    /\ cur # <<>>
    /\ \E pick \in (IF cur[1].cs.stale THEN Picks(loc[bucketNameSeq].kv)
                     ELSE {NoPair}) :
          Moved("Next", 0, CursorNext(loc, cur[1], pick))

Prev ==
    /\ cur # <<>>
    /\ \E pick \in (IF cur[1].cs.stale THEN Picks(loc[bucketNameSeq].kv)
                     ELSE {NoPair}) :
          \E keep \in BOOLEAN :
             Moved("Prev", 0, CursorPrev(loc, cur[1], pick, keep))

Seek(seq) == cur # <<>> /\ Moved("Seek", seq, CursorSeek(loc, cur[1], seq))

Data ==
    /\ cur # <<>>
    /\ \E r \in {CursorData(loc, cur[1])} :
           /\ cur' = <<r.c>>
           /\ last' = Call("Data", cur[1].key, r.val, 0, r.err = ErrNone, r.err, nil,
                           cur[1].seq)
    /\ UNCHANGED <<loc, nput, putAt, seq0, cdel, landed>>

\* c.Err(), c.Seq(), c.Key(): the cursor's fields, read.
ErrSeqKey ==
    /\ cur # <<>>
    /\ last' = Call("Err/Seq/Key", cur[1].key, nil, 0, TRUE, cur[1].err, nil,
                    cur[1].seq)
    /\ UNCHANGED <<loc, cur, nput, putAt, seq0, cdel, landed>>

\* NewBucket(l): a Bucket around the same Location.
NewBucket ==
    /\ last' = Call("NewBucket", nil, nil, 0, TRUE, ErrNone, nil, 0)
    /\ UNCHANGED <<loc, cur, nput, putAt, seq0, cdel, landed>>

CDelete ==
    /\ cur # <<>>
    /\ ~CursorDeletePanics(cur[1])
    /\ \E pickD \in (IF cur[1].dp.stale THEN Picks(loc[bucketNameData].kv)
                      ELSE {NoPair}) :
       \E pickS \in (IF cur[1].cs.stale THEN Picks(loc[bucketNameSeq].kv)
                      ELSE {NoPair}) :
          \E r \in {CursorDelete(loc, cur[1], pickD, pickS)} :
              /\ loc' = r.loc
              /\ cur' = <<r.c>>
              /\ last' = Call("Cursor.Delete", cur[1].key, nil, 0, r.err = ErrNone,
                              r.err, nil, cur[1].seq)
    /\ cdel' = TRUE
    /\ UNCHANGED <<nput, putAt, seq0, landed>>

\* The calls on the bucket alone.
Next ==
    \/ \E key \in Keys : \E value \in Payloads : Put(key, value)
    \/ \E key \in Keys : Get(key)
    \/ \E seq \in SeqArgs : GetSeq(seq)
    \/ \E key \in Keys : Delete(key)
    \/ \E seq \in SeqArgs : DeleteSeq(seq)
    \/ Walk
    \/ WalkBack

Spec == Init /\ [][Next]_vars

\* The bucket written and a cursor moved over it.
NextSeek ==
    \/ \E key \in CursorKeys : \E value \in Payloads :
          nput < MaxCursorPuts /\ Put(key, value)
    \/ \E key \in CursorKeys : Delete(key)
    \/ \E seq \in SeqArgs : DeleteSeq(seq)
    \/ NewCursor
    \/ First
    \/ Last
    \/ Next_
    \/ Prev
    \/ \E seq \in SeqArgs : Seek(seq)

SpecSeek == Init /\ [][NextSeek]_vars

\* The bucket written and entries deleted through a cursor.
NextCursorDelete ==
    \/ \E key \in CursorKeys : \E value \in Payloads :
          nput < MaxCursorPuts /\ Put(key, value)
    \/ \E key \in CursorKeys : Delete(key)
    \/ \E seq \in SeqArgs : DeleteSeq(seq)
    \/ NewCursor
    \/ First
    \/ Next_
    \/ CDelete

SpecCursorDelete == Init /\ [][NextCursorDelete]_vars

\* The bucket written, a cursor placed on an entry, and the entry read or
\* deleted through the cursor.
NextData ==
    \/ \E key \in CursorKeys : \E value \in Payloads :
          nput < MaxCursorPuts /\ Put(key, value)
    \/ \E key \in CursorKeys : Delete(key)
    \/ \E seq \in SeqArgs : DeleteSeq(seq)
    \/ NewCursor
    \/ First
    \/ Last
    \/ Data
    \/ CDelete

SpecData == Init /\ [][NextData]_vars

\* Every call but Cursor.Delete and the walks; the payload written is one
\* byte.
NextCalls ==
    \/ \E key \in CursorKeys : nput < MaxCursorPuts /\ Put(key, <<0>>)
    \/ \E key \in CursorKeys : Get(key)
    \/ \E seq \in SeqArgs : GetSeq(seq)
    \/ \E key \in CursorKeys : Delete(key)
    \/ \E seq \in SeqArgs : DeleteSeq(seq)
    \/ NewBucket
    \/ NewCursor
    \/ First
    \/ Last
    \/ Next_
    \/ Prev
    \/ \E seq \in SeqArgs : Seek(seq)
    \/ ErrSeqKey
    \/ Data

SpecCalls == Init /\ [][NextCalls]_vars

\* The bucket's calls on a store with malformed entries.
NextCorrupt ==
    \/ \E key \in CursorKeys : \E value \in Payloads :
          nput < MaxCorruptPuts /\ Put(key, value)
    \/ \E key \in Keys : Get(key)
    \/ \E key \in Keys : Delete(key)
    \/ \E seq \in SeqArgsCorrupt : DeleteSeq(seq)

SpecCorrupt == InitCorrupt /\ [][NextCorrupt]_vars

\* A cursor moved over a store with malformed entries, and entries deleted.
NextCorruptCursor ==
    \/ \E key \in Keys : Delete(key)
    \/ NewCursor
    \/ First
    \/ Last
    \/ Next_
    \/ Prev
    \/ \E seq \in SeqArgsCorrupt : Seek(seq)
    \/ Data

SpecCorruptCursor == InitCorrupt /\ [][NextCorruptCursor]_vars

\* ------------------------------------------------------------------ claims

DataIndex(l) == l[bucketNameData].kv

SeqIndex(l) == l[bucketNameSeq].kv

\* The sequence numbers of the live entries, read off the data index.
LiveSeqs(l) == {ValueSeq(DataIndex(l)[k]) : k \in DOMAIN DataIndex(l)}

\* Every entry of either index but the pair (key k, sequence number s) is in
\* l2 what it was in l, l2 has no entry l had not, and the counters and the
\* existence of the sub-buckets are the same.
SameBut(l, l2, k, s) ==
    /\ DOMAIN DataIndex(l2) \subseteq DOMAIN DataIndex(l)
    /\ DOMAIN SeqIndex(l2) \subseteq DOMAIN SeqIndex(l)
    /\ \A k2 \in DOMAIN DataIndex(l) \ {k} :
          k2 \in DOMAIN DataIndex(l2) /\ DataIndex(l2)[k2] = DataIndex(l)[k2]
    /\ \A sb \in DOMAIN SeqIndex(l) :
          Uint64(sb) # s => sb \in DOMAIN SeqIndex(l2) /\ SeqIndex(l2)[sb] = SeqIndex(l)[sb]
    /\ \A n \in {bucketNameData, bucketNameSeq} :
          l2[n].sequence = l[n].sequence /\ l2[n].exists = l[n].exists

\* C1. After any sequence of successful Put, Delete and DeleteSeq calls the
\* two indices mirror each other: every data entry k has the seq entry
\* (sequence number of data[k]) -> k, every seq entry s -> k has a data entry
\* k carrying s, the indices have the same number of entries and no two live
\* keys carry the same sequence number.
C1_Bijection ==
    ~cdel =>
       /\ \A k \in DOMAIN DataIndex(loc) :
             /\ ValueIsValid(DataIndex(loc)[k])
             /\ \E sb \in DOMAIN SeqIndex(loc) :
                   /\ Len(sb) = 8
                   /\ Uint64(sb) = ValueSeq(DataIndex(loc)[k])
                   /\ SeqIndex(loc)[sb] = k
       /\ \A sb \in DOMAIN SeqIndex(loc) :
             /\ Len(sb) = 8
             /\ SeqIndex(loc)[sb] \in DOMAIN DataIndex(loc)
             /\ ValueSeq(DataIndex(loc)[SeqIndex(loc)[sb]]) = Uint64(sb)
       /\ Cardinality(DOMAIN DataIndex(loc)) = Cardinality(DOMAIN SeqIndex(loc))
       /\ \A k1, k2 \in DOMAIN DataIndex(loc) :
             ValueSeq(DataIndex(loc)[k1]) = ValueSeq(DataIndex(loc)[k2]) => k1 = k2

\* Two live entries are left after a Delete removed a third.
C1_Witness ==
    /\ last.op = "Delete" /\ last.err = ErrNone /\ last.v # nil
    /\ Cardinality(DOMAIN DataIndex(loc)) = 2
    /\ Cardinality(DOMAIN SeqIndex(loc)) = 2

\* C2. The n-th successful Put returns the counter's start plus n: on a
\* never-written bucket (start 0) the first returns 1 and each later one the
\* previous plus 1, insert or overwrite, whatever Delete, DeleteSeq and
\* Cursor.Delete calls came in between.
C2_NthPutReturnsN ==
    (last.op = "Put" /\ last.err = ErrNone) => last.seq = seq0 + nput

\* The second Put on a never-written bucket, made after a Cursor.Delete.
C2_Witness ==
    /\ last.op = "Put" /\ last.err = ErrNone
    /\ seq0 = 0 /\ nput = 2 /\ last.seq = 2 /\ cdel

C5_DeleteLive ==
    [][(last'.op = "Delete" /\ BucketGet(loc, last'.key) # nil) =>
          /\ last'.err = ErrNone
          /\ BucketGet(loc', last'.key) = nil
          /\ BucketGetSeq(loc', ValueSeq(BucketGet(loc, last'.key))) = nil
          /\ SameBut(loc, loc', last'.key, ValueSeq(BucketGet(loc, last'.key)))]_vars

\* A Delete removed a live key and another entry is still there.
C5_Witness ==
    /\ last.op = "Delete" /\ last.err = ErrNone /\ last.v # nil
    /\ BucketGet(loc, last.key) = nil
    /\ DOMAIN DataIndex(loc) # {}

\* C6 as stated. Delete(k) of a key that is not in the data index returns no
\* error and changes nothing in every reachable state, a never-written bucket
\* included.
C6_DeleteAbsentAnywhere ==
    [][(last'.op = "Delete" /\ BucketGet(loc, last'.key) = nil) =>
          (last'.err = ErrNone /\ loc' = loc)]_vars

\* C6, amended. Delete(k) of a key that is not in the data index changes
\* nothing; it returns no error when the "data" sub-bucket exists and
\* ErrInvalidBucket when it does not (no Put was ever made).
C6_DeleteAbsent ==
    [][(last'.op = "Delete" /\ BucketGet(loc, last'.key) = nil) =>
          /\ loc' = loc
          /\ last'.err = IF loc[bucketNameData].exists THEN ErrNone
                         ELSE ErrInvalidBucket]_vars

\* A Delete of an absent key returned no error while other keys are live.
C6_Witness ==
    /\ last.op = "Delete" /\ last.err = ErrNone /\ last.v = nil
    /\ last.key \notin DOMAIN DataIndex(loc)
    /\ DOMAIN DataIndex(loc) # {}

\* C7. DeleteSeq(s) on a live sequence number s does what Delete(GetSeq(s))
\* does from the same state: both return no error and leave the same data
\* index, seq index and counter, with the entry at s gone from both indices
\* and nothing else changed.
C7_DeleteSeqIsDelete ==
    [][(last'.op = "DeleteSeq" /\ BucketGetSeq(loc, last'.seq) # nil) =>
          /\ last'.err = ErrNone
          /\ BucketDelete(loc, BucketGetSeq(loc, last'.seq)).err = ErrNone
          /\ loc' = BucketDelete(loc, BucketGetSeq(loc, last'.seq)).loc
          /\ BucketGetSeq(loc', last'.seq) = nil
          /\ BucketGet(loc', BucketGetSeq(loc, last'.seq)) = nil
          /\ SameBut(loc, loc', BucketGetSeq(loc, last'.seq), last'.seq)]_vars

\* A DeleteSeq whose seek landed on its sequence number, another entry left.
C7_Witness ==
    /\ last.op = "DeleteSeq" /\ last.err = ErrNone
    /\ last.ok /\ last.cseq = last.seq
    /\ BucketGetSeq(loc, last.seq) = nil
    /\ DOMAIN DataIndex(loc) # {}

\* C8. DeleteSeq(s) for an s that is not a live sequence number (retired,
\* never issued, below a greater live one, above all, or no sub-buckets at
\* all) returns no error and leaves both indices and the counter as they were.
C8_DeleteSeqNotLive ==
    [][(last'.op = "DeleteSeq" /\ last'.seq \notin LiveSeqs(loc)) =>
          (last'.err = ErrNone /\ loc' = loc)]_vars

\* A DeleteSeq whose seek overshot to a greater live sequence number.
C8_Witness ==
    /\ last.op = "DeleteSeq" /\ last.err = ErrNone
    /\ last.ok /\ last.cseq > last.seq
    /\ last.cseq \in LiveSeqs(loc)

\* What a walk is to report for the live key k.
Visit(l, k) ==
    [seq |-> ValueSeq(DataIndex(l)[k]), key |-> k,
     data |-> ValueData(DataIndex(l)[k]), err |-> ErrNone]

\* C9. A fresh cursor's walk, forwards (First, Next) or backwards (Last,
\* Prev), visits every live entry once, as many entries as there are live
\* keys, with Seq(), Key() and Data() those of the entry, and ends with no
\* error; forwards the sequence numbers strictly ascend, in the order of the
\* keys' latest Puts, backwards they strictly descend.
C9_WalkInOrder ==
    (last.op \in {"Walk", "WalkBack"}) =>
       /\ last.err = ErrNone
       /\ Len(last.val) = Cardinality(DOMAIN DataIndex(loc))
       /\ \A k \in DOMAIN DataIndex(loc) :
             \E i \in 1..Len(last.val) : last.val[i] = Visit(loc, k)
       /\ \A i, j \in 1..Len(last.val) :
             i < j =>
                IF last.op = "Walk"
                THEN /\ last.val[i].seq < last.val[j].seq
                     /\ putAt[last.val[i].key] < putAt[last.val[j].key]
                ELSE /\ last.val[i].seq > last.val[j].seq
                     /\ putAt[last.val[i].key] > putAt[last.val[j].key]

\* A forward walk over three entries whose sequence numbers cross a byte
\* boundary and whose keys are not in byte order.
C9_Witness ==
    /\ last.op = "Walk"
    /\ Len(last.val) = 3
    /\ last.val[1].seq < 256 /\ last.val[2].seq >= 256
    /\ BytesLess(last.val[2].key, last.val[1].key)

\* C10. Seek(s) returns true with the cursor on the smallest live sequence
\* number >= s and that entry's key, or false with no error when there is
\* none.
C10_SeekSmallestGE ==
    (last.op = "Seek") =>
       IF \E t \in LiveSeqs(loc) : t >= last.seq
       THEN /\ last.ok
            /\ cur[1].seq \in LiveSeqs(loc)
            /\ cur[1].seq >= last.seq
            /\ \A t \in LiveSeqs(loc) : t >= last.seq => cur[1].seq <= t
            /\ cur[1].key \in DOMAIN DataIndex(loc)
            /\ ValueSeq(DataIndex(loc)[cur[1].key]) = cur[1].seq
       ELSE ~last.ok /\ cur[1].err = ErrNone

\* The same for a cursor that was obtained when "seq" existed.
SeekOfBoundCursor == (cur # <<>> /\ ~cur[1].cs.isnil) => C10_SeekSmallestGE

\* A bound cursor's Seek overshot to a greater live sequence number.
SeekOfBoundCursorWitness ==
    /\ last.op = "Seek" /\ last.ok /\ ~cur[1].cs.isnil /\ cur[1].seq > last.seq

\* pointer.move with nothing remembered: a seek of "data" on every call.
pointerMoveMiss(l, p, k) ==
    IF p.isnil THEN [p |-> p, ok |-> FALSE]
    ELSE LET r == BoltSeek(l[bucketNameData].kv, IF k = nil THEN <<>> ELSE k)
         IN  [p  |-> [p EXCEPT !.key = r.k, !.val = r.v, !.stale = FALSE],
              ok |-> BytesEqual(r.k, k)]

\* Cursor.Data over such a pointer.
CursorDataMiss(l, c) ==
    LET m == pointerMoveMiss(l, c.dp, c.key)
    IN  IF ~m.ok THEN [val |-> nil, err |-> ErrInvalidKey]
        ELSE IF ~ValueIsValid(m.p.val) THEN [val |-> nil, err |-> ErrInvalidValue]
        ELSE [val |-> ValueData(m.p.val), err |-> ErrNone]

\* What pointer.Delete over such a pointer leaves of "data": the seek has
\* just placed the bolt cursor on k, or found that k is not there.
DataAfterDeleteMiss(l, c) ==
    IF pointerMoveMiss(l, c.dp, c.key).ok
    THEN BoltDelete(l[bucketNameData], c.key)
    ELSE l[bucketNameData]

\* C11. The pointer's remembered pair is an optimisation only: on a cursor
\* that its latest positioning call put on an entry, whatever positioning
\* calls, Data, Cursor.Delete, Put and Delete calls came before, Data returns
\* the payload or error, and Cursor.Delete leaves the "data" index, that a
\* pointer which seeks on every call would.
C11_CacheIsPureOptimisation ==
    [][(landed # nil /\ ValueIsValid(landed)) =>
          /\ last'.op = "Data" =>
                /\ last'.val = CursorDataMiss(loc, cur[1]).val
                /\ last'.err = CursorDataMiss(loc, cur[1]).err
          /\ last'.op = "Cursor.Delete" =>
                loc'[bucketNameData] = DataAfterDeleteMiss(loc, cur[1])]_vars

\* The cursor is on a live pair and nothing was changed since it was put there
\* or since its pointer last looked the key up.
FreshOnPair(c) ==
    /\ landed # nil /\ ValueIsValid(landed)
    /\ ~c.cs.stale
    /\ ~c.dp.stale

\* The same for a cursor on which nothing went stale: there the remembered
\* pair and a seek agree.
CacheOfFreshCursor ==
    [][(cur # <<>> /\ FreshOnPair(cur[1])) =>
          /\ last'.op = "Data" =>
                /\ last'.val = CursorDataMiss(loc, cur[1]).val
                /\ last'.err = CursorDataMiss(loc, cur[1]).err
          /\ last'.op = "Cursor.Delete" =>
                loc'[bucketNameData] = DataAfterDeleteMiss(loc, cur[1])]_vars

\* Data answered from the remembered pair: the second Data on one entry.
CacheOfFreshCursorWitness ==
    /\ last.op = "Data" /\ last.err = ErrNone
    /\ cur[1].dp.key = last.key /\ ~cur[1].dp.stale
    /\ last.val = <<0>>

\* The two indices mirror each other.
Mirrored(l) ==
    /\ \A k \in DOMAIN DataIndex(l) :
          /\ ValueIsValid(DataIndex(l)[k])
          /\ BucketGetSeq(l, ValueSeq(DataIndex(l)[k])) = k
    /\ \A sb \in DOMAIN SeqIndex(l) :
          /\ Len(sb) = 8
          /\ SeqIndex(l)[sb] \in DOMAIN DataIndex(l)
          /\ ValueSeq(DataIndex(l)[SeqIndex(l)[sb]]) = Uint64(sb)

\* What Cursor.Delete is to do on a cursor on (seq s, key k): data[k] and
\* seq[s] are gone, nothing else changed, the indices still mirror each other.
RemovedBoth(l, l2, c) ==
    /\ c.key \notin DOMAIN DataIndex(l2)
    /\ BucketGetSeq(l2, c.seq) = nil
    /\ SameBut(l, l2, c.key, c.seq)
    /\ Mirrored(l) => Mirrored(l2)

\* The cursor's latest positioning call put it on (seq s, key k), no entry of
\* "seq" was changed since, and the pair is live in both indices.
OnLivePair(l, c) ==
    /\ landed # nil /\ ValueIsValid(landed)
    /\ ~c.cs.stale
    /\ BucketGetSeq(l, c.seq) = c.key
    /\ c.key \in DOMAIN DataIndex(l)
    /\ ValueIsValid(DataIndex(l)[c.key])
    /\ ValueSeq(DataIndex(l)[c.key]) = c.seq

\* C12. Cursor.Delete on a cursor that its latest positioning call put on
\* the live pair (seq s, key k) removes data[k] and seq[s] and changes nothing
\* else, whether or not Data was called there before; the indices still
\* mirror each other afterwards.
C12_CursorDeleteRemovesBoth ==
    [][(last'.op = "Cursor.Delete" /\ OnLivePair(loc, cur[1])) =>
          RemovedBoth(loc, loc', cur[1])]_vars

\* The same where nothing was changed since the cursor was put on the entry
\* and since its pointer last looked a key up.
CursorDeleteOfFreshCursor ==
    [][(last'.op = "Cursor.Delete" /\ FreshOnPair(cur[1])) =>
          RemovedBoth(loc, loc', cur[1])]_vars

\* Such a Cursor.Delete after Data was called on the entry, another entry left.
CursorDeleteOfFreshCursorWitness ==
    /\ last.op = "Cursor.Delete"
    /\ cur[1].dp.val # nil /\ cur[1].dp.key = last.key
    /\ landed # nil
    /\ last.key \notin DOMAIN DataIndex(loc)
    /\ Cardinality(DOMAIN DataIndex(loc)) = 1
    /\ Cardinality(DOMAIN SeqIndex(loc)) = 1

ReadOnlyOps ==
    {"NewBucket", "Cursor", "Get", "GetSeq", "First", "Last", "Next", "Prev",
     "Seek", "Err/Seq/Key", "Data"}

\* C14. NewBucket, Cursor, Get, GetSeq, First, Last, Next, Prev, Seek, Err,
\* Seq, Key and Data leave the store as it was: the existence of "data" and
\* "seq", every entry of both and the counter.  Delete and DeleteSeq create
\* no sub-bucket.  Until a Put was made on a never-written bucket neither
\* sub-bucket exists, and there Get and GetSeq return nothing.
C14_OnlyPutWrites ==
    [][/\ last'.op \in ReadOnlyOps => loc' = loc
       /\ last'.op \in {"Delete", "DeleteSeq"} =>
             \A n \in {bucketNameData, bucketNameSeq} :
                loc'[n].exists = loc[n].exists
       /\ (seq0 = 0 /\ nput' = 0) => loc' = NeverWritten
       /\ (last'.op \in {"Get", "GetSeq"} /\ loc = NeverWritten) =>
             (~last'.ok /\ last'.v = nil /\ last'.err = ErrNone)]_vars

\* Data read a live entry's payload through a cursor while two entries are
\* live, on a bucket that was never written before.
C14_Witness ==
    /\ last.op = "Data" /\ last.err = ErrNone /\ last.val = <<0>>
    /\ seq0 = 0
    /\ Cardinality(DOMAIN DataIndex(loc)) = 2

\* Bucket.Delete's outcomes in the order it tests for them.
DeleteOutcome(l, key) ==
    IF ~l[bucketNameData].exists THEN ErrInvalidBucket
    ELSE IF key \notin DOMAIN DataIndex(l) THEN ErrNone
    ELSE IF Len(DataIndex(l)[key]) < 8 THEN ErrInvalidValue
    ELSE IF ~l[bucketNameSeq].exists THEN ErrInvalidBucket
    ELSE ErrNone

\* C15. Delete(k) returns ErrInvalidBucket when "data" is missing; else no
\* error when k is absent; else ErrInvalidValue when data[k] is shorter than 8
\* bytes; else ErrInvalidBucket when "seq" is missing.  When it returns an
\* error neither index nor the counter is changed.
C15_DeleteErrorOrder ==
    [][last'.op = "Delete" =>
          /\ last'.err = DeleteOutcome(loc, last'.key)
          /\ last'.err # ErrNone => loc' = loc]_vars

\* Delete met a short value in a store without "seq": the value is reported,
\* not the missing sub-bucket.
C15_Witness ==
    /\ last.op = "Delete" /\ last.err = ErrInvalidValue
    /\ ~loc[bucketNameSeq].exists

\* C16. Put(k, p) on a key whose stored value is shorter than 8 bytes returns
\* ErrInvalidValue and no sequence number: the counter is where it was and
\* every entry of both indices, the short one included, is as it was.
C16_PutOnCorruptValue ==
    [][(/\ last'.op = "Put"
        /\ BucketGet(loc, last'.key) # nil
        /\ ~ValueIsValid(BucketGet(loc, last'.key))) =>
          /\ last'.err = ErrInvalidValue
          /\ last'.seq = 0
          /\ \A n \in {bucketNameData, bucketNameSeq} :
                /\ loc'[n].kv = loc[n].kv
                /\ loc'[n].sequence = loc[n].sequence]_vars

\* Such a Put on a store whose counter stands at 2, beside a live pair.
C16_Witness ==
    /\ last.op = "Put" /\ last.err = ErrInvalidValue
    /\ last.v = <<7>>
    /\ loc[bucketNameSeq].sequence = 2
    /\ BucketGetSeq(loc, 1) = <<97, 0>>
    /\ BucketGet(loc, last.key) = <<7>>

PositioningOps == {"First", "Last", "Next", "Prev", "Seek"}

\* C17. After a positioning call Err() is ErrInvalidKey if and only if that
\* call landed on a "seq" entry whose key is shorter than 8 bytes; after a
\* call that returned true, or false for want of an entry, Err() is nil,
\* whatever earlier calls on the cursor met.
C17_ErrIsOfLatestCall ==
    (last.op \in PositioningOps) =>
       /\ (last.err = ErrInvalidKey) <=> (landed # nil /\ ~ValueIsValid(landed))
       /\ (last.ok \/ landed = nil) => last.err = ErrNone

\* The same for a call on a cursor whose Err() was nil before the call.
ErrOfCallOnCleanCursor ==
    [][(last'.op \in PositioningOps /\ cur[1].err = ErrNone) =>
          /\ (last'.err = ErrInvalidKey) <=>
                (landed' # nil /\ ~ValueIsValid(landed'))
          /\ (last'.ok \/ landed' = nil) => last'.err = ErrNone]_vars

\* Next ran from a well-formed entry onto a short key.
ErrOfCallOnCleanCursorWitness ==
    /\ last.op = "Next" /\ ~last.ok /\ last.err = ErrInvalidKey
    /\ landed = <<1>>
    /\ last.cseq = 2

\* What Data is to return for the key k: the error, and the payload.
DataOutcome(l, k) ==
    IF k \notin DOMAIN DataIndex(l) THEN [val |-> nil, err |-> ErrInvalidKey]
    ELSE IF Len(DataIndex(l)[k]) < 8 THEN [val |-> nil, err |-> ErrInvalidValue]
    ELSE [val |-> SubSeq(DataIndex(l)[k], 9, Len(DataIndex(l)[k])),
          err |-> ErrNone]

\* C18. Data on a cursor that is on key k, in every state the cursor and
\* bucket calls lead to, returns ErrInvalidKey when the data index has no
\* entry for k at the time of the call, ErrInvalidValue when data[k] is
\* shorter than 8 bytes, and else the bytes of the current data[k] after its
\* 8-byte header.
C18_DataReadsCurrentEntry ==
    [][(last'.op = "Data" /\ landed # nil /\ ValueIsValid(landed)) =>
          /\ last'.err = DataOutcome(loc, cur[1].key).err
          /\ last'.val = DataOutcome(loc, cur[1].key).val]_vars

\* The same where nothing was changed since the cursor was put on the entry
\* and since its pointer last looked a key up.
DataOfFreshCursor ==
    [][(last'.op = "Data" /\ FreshOnPair(cur[1])) =>
          /\ last'.err = DataOutcome(loc, cur[1].key).err
          /\ last'.val = DataOutcome(loc, cur[1].key).val]_vars

\* Data on an entry whose data value is short.
DataOfFreshCursorWitness ==
    /\ last.op = "Data" /\ last.err = ErrInvalidValue
    /\ last.key = <<97>> /\ last.cseq = 2

\* The "seq" entry a seek for the sequence number s lands on: the first whose
\* key is not below the 8 bytes of s (k = nil: none).
SeekLanding(l, s) ==
    IF ~l[bucketNameSeq].exists THEN NoPair
    ELSE BoltSeek(SeqIndex(l), PutUint64(s))

\* C19. DeleteSeq(s) returns ErrInvalidKey and deletes nothing when the seek
\* for s lands on a "seq" entry whose key is shorter than 8 bytes; it returns
\* no error and deletes nothing when the seek finds no entry or lands on a
\* well-formed entry of another sequence number.
C19_DeleteSeqNotFoundOrCorrupt ==
    [][last'.op = "DeleteSeq" =>
          \A p \in {SeekLanding(loc, last'.seq)} :
             /\ (p.k # nil /\ Len(p.k) < 8) =>
                   (last'.err = ErrInvalidKey /\ loc' = loc)
             /\ (p.k = nil \/ (Len(p.k) = 8 /\ Uint64(p.k) # last'.seq)) =>
                   (last'.err = ErrNone /\ loc' = loc)]_vars

\* A DeleteSeq whose seek ran past the well-formed entries onto a short key.
C19_Witness ==
    /\ last.op = "DeleteSeq" /\ last.err = ErrInvalidKey /\ ~last.ok
    /\ last.seq > 0
    /\ <<1>> \in DOMAIN SeqIndex(loc)
    /\ Cardinality(DOMAIN SeqIndex(loc)) >= 3

\* Every key of the seq index is 8 bytes, and it and every sequence number
\* in a data value lie between 1 and the counter of "seq".
WithinCounter(l) ==
    /\ \A sb \in DOMAIN SeqIndex(l) :
          /\ Len(sb) = 8
          /\ 1 <= Uint64(sb) /\ Uint64(sb) <= l[bucketNameSeq].sequence
    /\ \A k \in DOMAIN DataIndex(l) :
          /\ ValueIsValid(DataIndex(l)[k])
          /\ 1 <= ValueSeq(DataIndex(l)[k])
          /\ ValueSeq(DataIndex(l)[k]) <= l[bucketNameSeq].sequence

\* C20. In every state reached through Put, Delete, DeleteSeq and
\* Cursor.Delete every key of the seq index and every sequence number in a
\* data value is between 1 and the counter of "seq"; so the number a Put
\* obtains is the key of no seq entry, and its insert overwrites none.
C20_SeqWithinCounter ==
    /\ []WithinCounter(loc)
    /\ [][(last'.op = "Put" /\ last'.err = ErrNone) =>
             /\ BucketGetSeq(loc, last'.seq) = nil
             /\ last'.seq = loc[bucketNameSeq].sequence + 1
             /\ \A sb \in DOMAIN SeqIndex(loc) : Uint64(sb) < last'.seq]_vars

\* A Put after a Cursor.Delete has retired an earlier number: the new pair
\* is the only one, under the counter's new value.
C20_Witness ==
    /\ last.op = "Put" /\ last.err = ErrNone /\ cdel
    /\ DOMAIN SeqIndex(loc) = {PutUint64(last.seq)}
    /\ last.seq = loc[bucketNameSeq].sequence
    /\ last.seq > seq0 + 1

====
